---- MODULE Spec2Model ----
(***************************************************************************)
(* Model of the IMDb Top 250 scraper (src/src/scraper.py).                 *)
(*                                                                         *)
(* Python strings are sequences of one-character strings, so that          *)
(* replace/strip/split/"in" are computed character by character.           *)
(* Python values that may be of several types are tagged records:          *)
(*   PyNone, PyStr(s), PyInt(n).                                           *)
(***************************************************************************)
EXTENDS Integers, Sequences, FiniteSets, TLC

\* ------------------------------------------------------------------ bounds
MaxEntries  == 3   \* entries on the list page
MaxLimit    == 3   \* largest cap passed as limit
MaxTitleLen == 4   \* longest title text given to clean_title
MaxHrefLen  == 4   \* longest href given to extract_movie_link

\* ------------------------------------------------------- Python values
PyNone   == [kind |-> "none"]
PyStr(s) == [kind |-> "str", str |-> s]
PyInt(n) == [kind |-> "int", int |-> n]

\* bool(v) of a Python value: None, "" and 0 are falsy
Truthy(v) ==
    CASE v.kind = "none" -> FALSE
      [] v.kind = "str"  -> v.str # <<>>
      [] v.kind = "int"  -> v.int # 0

NA == <<"N", "/", "A">>

\* ------------------------------------------------------- string helpers
Digits == {"0", "1", "2", "3", "4", "5", "6", "7", "8", "9"}

DigitVal(c) ==
    CASE c = "0" -> 0 [] c = "1" -> 1 [] c = "2" -> 2 [] c = "3" -> 3
      [] c = "4" -> 4 [] c = "5" -> 5 [] c = "6" -> 6 [] c = "7" -> 7
      [] c = "8" -> 8 [] c = "9" -> 9

\* c in s
Contains(s, c) == \E k \in 1..Len(s) : s[k] = c

\* s.replace(c, "")
RECURSIVE Remove(_, _)
Remove(s, c) ==
    IF s = <<>> THEN <<>>
    ELSE IF Head(s) = c THEN Remove(Tail(s), c)
         ELSE <<Head(s)>> \o Remove(Tail(s), c)

\* s.replace(c, d) for single characters c, d
Replace(s, c, d) == [k \in 1..Len(s) |-> IF s[k] = c THEN d ELSE s[k]]

RECURSIVE LStrip(_)
LStrip(s) ==
    IF s # <<>> /\ Head(s) = " " THEN LStrip(Tail(s)) ELSE s

RECURSIVE RStrip(_)
RStrip(s) ==
    IF s # <<>> /\ s[Len(s)] = " " THEN RStrip(SubSeq(s, 1, Len(s) - 1)) ELSE s

\* s.strip()
Strip(s) == RStrip(LStrip(s))

\* position of the first occurrence of c in s, 0 when there is none
RECURSIVE FindChar(_, _, _)
FindChar(s, c, from) ==
    IF from > Len(s) THEN 0
    ELSE IF s[from] = c THEN from
    ELSE FindChar(s, c, from + 1)

\* position of the first occurrence of the two characters c d, 0 when none
RECURSIVE FindPair(_, _, _, _)
FindPair(s, c, d, from) ==
    IF from + 1 > Len(s) THEN 0
    ELSE IF s[from] = c /\ s[from + 1] = d THEN from
    ELSE FindPair(s, c, d, from + 1)

\* value of a string of digits
RECURSIVE DigitsVal(_)
DigitsVal(s) ==
    IF s = <<>> THEN 0
    ELSE 10 * DigitsVal(SubSeq(s, 1, Len(s) - 1)) + DigitVal(s[Len(s)])

AllDigits(s) == \A k \in 1..Len(s) : s[k] \in Digits

RECURSIVE Pow(_, _)
Pow(b, e) == IF e = 0 THEN 1 ELSE b * Pow(b, e - 1)

\* ------------------------------------------------ int() and float()
\* int(s) on a stripped string of the model's alphabet: digits only
IntOk(s) == s # <<>> /\ AllDigits(s)

\* float(s) on a stripped string of the model's alphabet:
\* digits [ "." digits ] with at least one digit; anything else is ValueError.
\* The decimal value is num / 10^frac.
FloatOk(s) ==
    LET dot == FindChar(s, ".", 1) IN
    IF dot = 0 THEN IntOk(s)
    ELSE LET ip == SubSeq(s, 1, dot - 1)
             fp == SubSeq(s, dot + 1, Len(s)) IN
         /\ AllDigits(ip) /\ AllDigits(fp)
         /\ Len(ip) + Len(fp) > 0

FloatNum(s)  == DigitsVal(Remove(s, "."))
FloatFrac(s) ==
    LET dot == FindChar(s, ".", 1) IN IF dot = 0 THEN 0 ELSE Len(s) - dot

\* floor(log2(a / b)) for a, b > 0
RECURSIVE Log2Up(_, _, _)
Log2Up(a, b, e) == IF b * Pow(2, e + 1) <= a THEN Log2Up(a, b, e + 1) ELSE e
RECURSIVE Log2Down(_, _, _)
Log2Down(a, b, j) == IF a * Pow(2, j) >= b THEN j ELSE Log2Down(a, b, j + 1)
Log2Floor(a, b) == IF a >= b THEN Log2Up(a, b, 0) ELSE 0 - Log2Down(a, b, 1)

\* 2^k mod m
RECURSIVE Pow2Mod(_, _)
Pow2Mod(k, m) == IF k = 0 THEN 1 % m ELSE (2 * Pow2Mod(k - 1, m)) % m

\* int(float(s) * mult) in IEEE-754 binary64, for the decimal num / 10^frac
\* with 10^frac dividing mult.
\*   float(s)  is the double nearest to num/den: M / 2^k with a 53-bit M,
\*             k = 52 - floor(log2(num/den)); its error is r / (den * 2^k)
\*             where r is the signed remainder of num * 2^k modulo den.
\*   x * mult  is the double nearest to the exact product P + r*mult/(den*2^k),
\*             P = num*mult/den an integer; doubles around P are spaced
\*             2^(E-52), E = floor(log2(P)).
\*   int()     truncates toward zero.
FloatMulInt(num, frac, mult) ==
    LET den == Pow(10, frac)
        P   == (num * mult) \div den
    IN  IF num = 0 THEN 0
        ELSE
        LET ex == Log2Floor(num, den)
            k  == 52 - ex
            q  == ((num % den) * Pow2Mod(k, den)) % den
            r  == IF 2 * q < den THEN 0 - q ELSE den - q
            E  == Log2Floor(P, 1)
            D  == E - ex
        IN  IF r < 0 /\ 2 * (0 - r) * mult > den * Pow(2, D)
            THEN P - 1
            ELSE P

\* ------------------------------------------------------------ clean_votes
\* what float() and int() raise on a string that is not a number
ValueError == [type |-> "ValueError"]
Raise(exc)  == [raised |-> TRUE, exc |-> exc]
Return(v)   == [raised |-> FALSE, value |-> v]

clean_votes(votes_text) ==
    IF ~Truthy(votes_text) \/ votes_text = PyStr(NA) THEN Return(PyNone)
    ELSE
    LET cleaned == Strip(Remove(Remove(votes_text.str, "("), ")")) IN
    IF Contains(cleaned, "M") THEN
        LET t == Replace(Remove(cleaned, "M"), ",", ".") IN
        IF FloatOk(Strip(t))
        THEN Return(PyInt(FloatMulInt(FloatNum(Strip(t)), FloatFrac(Strip(t)), 1000000)))
        ELSE Raise(ValueError)
    ELSE IF Contains(cleaned, "K") THEN
        LET t == Replace(Remove(cleaned, "K"), ",", ".") IN
        IF FloatOk(Strip(t))
        THEN Return(PyInt(FloatMulInt(FloatNum(Strip(t)), FloatFrac(Strip(t)), 1000)))
        ELSE Raise(ValueError)
    ELSE
        LET t == Remove(Remove(cleaned, ","), ".") IN
        IF IntOk(Strip(t))
        THEN Return(PyInt(DigitsVal(Strip(t))))
        ELSE Raise(ValueError)

\* ------------------------------------------------------------ clean_title
\* title_text.split(". ", 1): the part after the first ". " when there is one
clean_title(title_text) ==
    IF ~Truthy(title_text) THEN PyStr(NA)
    ELSE
    LET s == title_text.str
        p == FindPair(s, ".", " ", 1) IN
    IF p > 0 THEN PyStr(SubSeq(s, p + 2, Len(s)))
    ELSE title_text

\* ------------------------------------------------------------- constants
URL      == <<"h", "t", "t", "p", "s", ":", "/", "/", "w", "w", "w", ".", "i", "m", "d", "b", ".", "c", "o", "m", "/", "c", "h", "a", "r", "t", "/", "t", "o", "p", "/">>
BASE_URL == <<"h", "t", "t", "p", "s", ":", "/", "/", "w", "w", "w", ".", "i", "m", "d", "b", ".", "c", "o", "m">>

\* ------------------------------------------------------ document nodes
\* A node looked up with select_one is either missing or carries a text.
NoNode       == [present |-> FALSE, text |-> <<>>]
TextNode(t)  == [present |-> TRUE, text |-> t]
\* An element looked up for an attribute: missing, without the attribute,
\* or with the attribute's value.
NoElem       == [present |-> FALSE, has_attr |-> FALSE, attr |-> <<>>]
BareElem     == [present |-> TRUE, has_attr |-> FALSE, attr |-> <<>>]
AttrElem(v)  == [present |-> TRUE, has_attr |-> TRUE, attr |-> v]

\* tag.get_text(strip=True)
get_text(node) == Strip(node.text)

\* ------------------------------------------------------ extract_movie_link
\* faulty variant: the query string is not stripped
SplitFirst_Whole(s, c) == s

\* href.split("?")[0]
SplitFirst(s, c) ==
    LET p == FindChar(s, c, 1) IN IF p = 0 THEN s ELSE SubSeq(s, 1, p - 1)

\* faulty variant: an entry without a link node gets the bare origin as its URL
extract_movie_link_OriginWhenNoLink(movie_element) ==
    LET link_tag == movie_element.link_tag
        href == IF link_tag.present /\ link_tag.has_attr THEN link_tag.attr ELSE <<>>
    IN  PyStr(BASE_URL \o SplitFirst(href, "?"))

extract_movie_link(movie_element) ==
    LET link_tag == movie_element.link_tag IN
    IF link_tag.present
    THEN LET href == IF link_tag.has_attr THEN link_tag.attr ELSE <<>> IN
         PyStr(BASE_URL \o SplitFirst(href, "?"))
    ELSE PyNone

\* ------------------------------------------------------ extract_basic_data
BasicFields  == {"title", "year", "rating", "votes", "image_url", "detail_url"}
DetailFields == {"genres", "duration", "directors", "writers", "actors", "plot"}

extract_basic_data(movie_element) ==
    LET title_tag == movie_element.title_tag
        raw_title == IF title_tag.present THEN get_text(title_tag) ELSE NA
        title     == clean_title(PyStr(raw_title))
        metadata_items == movie_element.metadata_items
        year      == IF metadata_items # <<>>
                     THEN PyStr(get_text(metadata_items[1])) ELSE PyStr(NA)
        rating_tag == movie_element.rating_tag
        rating    == IF rating_tag.present
                     THEN PyStr(get_text(rating_tag)) ELSE PyStr(NA)
        votes_tag == movie_element.votes_tag
        votes_raw == IF votes_tag.present THEN get_text(votes_tag) ELSE NA
        votes     == clean_votes(PyStr(votes_raw))
        img_tag   == movie_element.img_tag
        image_url == IF img_tag.present
                     THEN (IF img_tag.has_attr THEN PyStr(img_tag.attr) ELSE PyNone)
                     ELSE PyStr(NA)
        detail_url == extract_movie_link(movie_element)
    IN  IF votes.raised THEN votes
        ELSE Return([title      |-> title,
                     year       |-> year,
                     rating     |-> rating,
                     votes      |-> votes.value,
                     image_url  |-> image_url,
                     detail_url |-> detail_url])

\* ---------------------------------------------------------------- fetch_page
\* What requests.get can do: answer with a status and a body, or fail with
\* a transport fault that fetch_page does not catch.
Statuses == {200, 404}
Response(status, body) == [kind |-> "response", status |-> status, body |-> body]
TransportFault == [kind |-> "fault", status |-> 0, body |-> <<>>]

NoError == [type |-> "none"]
FetchError(status) ==
    [type |-> "Exception",
     msg  |-> <<"Failed to fetch page. Status code: ", ToString(status)>>]
TransportError == [type |-> "RequestException"]

\* faulty variant: the status code is not checked
fetch_page_NoStatusCheck(outcome) ==
    IF outcome.kind = "fault" THEN Raise(TransportError)
    ELSE Return(outcome.body)

fetch_page(outcome) ==
    IF outcome.kind = "fault" THEN Raise(TransportError)
    ELSE IF outcome.status # 200 THEN Raise(FetchError(outcome.status))
    ELSE Return(outcome.body)

\* --------------------------------------------------- extract_movie_details
\* A detail page: the genre chips, the runtime element (missing, with a text
\* the duration pattern matches, or with a text it does not match), the
\* credit links of the three sections and the plot node.  Names are atoms and
\* a comma-joined string is the sequence of the names joined.
RECURSIVE SeqToSet(_)
SeqToSet(s) == IF s = <<>> THEN {} ELSE {Head(s)} \cup SeqToSet(Tail(s))

\* the orders list(set(names)) may produce
Orderings(S) ==
    {o \in [1..Cardinality(S) -> S] : \A a \in S : \E k \in DOMAIN o : o[k] = a}

extract_movie_details(outcome, dOrder, wOrder, aOrder) ==
    LET page == fetch_page(outcome) IN
    IF page.raised THEN page
    ELSE
    LET soup == page.value
        duration == IF soup.runtime.present /\ soup.runtime.matches
                    THEN PyStr(soup.runtime.text) ELSE PyStr(NA)
        plot == IF soup.plot_tag.present
                THEN PyStr(get_text(soup.plot_tag)) ELSE PyStr(NA)
    IN  Return([genres    |-> soup.genre_chips,
                duration  |-> duration,
                directors |-> dOrder,
                writers   |-> wOrder,
                actors    |-> aOrder,
                plot      |-> plot])

\* ------------------------------------------------------- the environment
\* List entries the site can serve.
EntryFull ==
    [title_tag      |-> TextNode(<<"1", ".", " ", "A">>),
     metadata_items |-> <<TextNode(<<"1", "9", "9", "4">>), TextNode(<<"2", "h">>)>>,
     rating_tag     |-> TextNode(<<"9", ".", "3">>),
     votes_tag      |-> TextNode(<<" ", "(", "3", ".", "2", "M", ")">>),
     img_tag        |-> AttrElem(<<"a", ".", "j", "p", "g">>),
     link_tag       |-> AttrElem(<<"/", "t", "/", "1", "/", "?", "r", "=", "1">>)]
EntryNoRating ==
    [title_tag      |-> TextNode(<<"2", ".", " ", "B", ".", " ", "C">>),
     metadata_items |-> <<TextNode(<<"1", "9", "7", "2">>)>>,
     rating_tag     |-> NoNode,
     votes_tag      |-> NoNode,
     img_tag        |-> BareElem,
     link_tag       |-> AttrElem(<<"/", "t", "/", "2", "/">>)]
EntryNoLink ==
    [title_tag      |-> TextNode(<<"D">>),
     metadata_items |-> <<>>,
     rating_tag     |-> TextNode(<<"9", ".", "0">>),
     votes_tag      |-> TextNode(<<"(", "9", "7", "2", "K", ")">>),
     img_tag        |-> NoElem,
     link_tag       |-> NoElem]
EntryBadVotes ==
    [title_tag      |-> NoNode,
     metadata_items |-> <<>>,
     rating_tag     |-> TextNode(<<"9", ".", "3">>),
     votes_tag      |-> TextNode(<<"(", "x", ")">>),
     img_tag        |-> NoElem,
     link_tag       |-> BareElem]
EntryShapes == {EntryFull, EntryNoRating, EntryNoLink, EntryBadVotes}

\* Detail pages the site can serve.
DocFull ==
    [genre_chips    |-> <<"Drama", "Crime">>,
     runtime        |-> [present |-> TRUE, matches |-> TRUE, text |-> <<"2", "h", " ", "2", "2", "m">>],
     director_links |-> <<"Darabont", "Darabont">>,
     writer_links   |-> <<"King", "Darabont">>,
     actor_links    |-> <<"Robbins">>,
     plot_tag       |-> TextNode(<<"H", "o", "p", "e", ".">>)]
DocBare ==
    [genre_chips    |-> <<>>,
     runtime        |-> [present |-> TRUE, matches |-> FALSE, text |-> <<"9", "5", "m">>],
     director_links |-> <<>>,
     writer_links   |-> <<>>,
     actor_links    |-> <<>>,
     plot_tag       |-> NoNode]
DetailDocs == {DocFull, DocBare}

SeqsUpTo(A, n) == UNION {[1..m -> A] : m \in 0..n}

Pages  == SeqsUpTo(EntryShapes, MaxEntries)
Limits == {PyNone} \cup {PyInt(n) : n \in 0..MaxLimit}

\* ------------------------------------------------------------------- state
VARIABLES
    page,             \* the entries the list page holds (environment)
    limit,            \* argument limit: PyNone or PyInt(n)
    include_details,  \* argument include_details
    pc,               \* position in scrape_top_movies
    movie_elements,   \* entries to loop over (after the cap)
    i,                \* number of loop iterations started
    movie_data,       \* the record of the current iteration
    details,          \* result of extract_movie_details, before the merge
    movies,           \* the output collection
    fetches,          \* every requests.get issued so far, in order
    sleeps,           \* number of time.sleep(1) calls performed
    err,              \* the exception that left scrape_top_movies
    returned,         \* the value returned to the caller
    call,             \* a call of one of the pure functions
    ret               \* and its result

vars == <<page, limit, include_details, pc, movie_elements, i, movie_data,
          details, movies, fetches, sleeps, err, returned, call, ret>>

NoCall == [fn |-> "none"]
Pending == [raised |-> FALSE, pending |-> TRUE]
NotReturned == [returned |-> FALSE]
Returned(v) == [returned |-> TRUE, value |-> v]

\* movie_elements[:limit], taken only when limit is truthy
ApplyLimit(elements, lim) ==
    IF Truthy(lim)
    THEN SubSeq(elements, 1, IF lim.int < Len(elements) THEN lim.int ELSE Len(elements))
    ELSE elements

\* faulty variant: the include_details flag is not consulted
ShouldEnrich_IgnoresFlag(inc, data) == Truthy(data.detail_url)

\* include_details and movie_data["detail_url"]
ShouldEnrich(inc, data) == inc /\ Truthy(data.detail_url)

\* faulty variant: the details are dropped instead of merged
Update_DropsDetails(data, d) == data

\* movie_data.update(details)
Update(data, d) == d @@ data

Fetch(url, outcome, idx) ==
    [url |-> url, kind |-> outcome.kind, status |-> outcome.status, idx |-> idx]

Init ==
    /\ page \in Pages
    /\ limit \in Limits
    /\ include_details \in BOOLEAN
    /\ pc = "start"
    /\ movie_elements = <<>>
    /\ i = 0
    /\ movie_data = PyNone
    /\ details = PyNone
    /\ movies = <<>>
    /\ fetches = <<>>
    /\ sleeps = 0
    /\ err = NoError
    /\ returned = NotReturned
    /\ call = NoCall
    /\ ret = Pending

\* soup = fetch_page(URL); select the entries; apply the cap; movies = []
FetchList ==
    /\ pc = "start"
    /\ \E outcome \in {Response(st, page) : st \in Statuses} \cup {TransportFault} :
         LET r == fetch_page(outcome) IN
         /\ fetches' = Append(fetches, Fetch(URL, outcome, 0))
         /\ IF r.raised
            THEN /\ err' = r.exc
                 /\ pc' = "failed"
                 /\ UNCHANGED movie_elements
            ELSE /\ movie_elements' = ApplyLimit(r.value, limit)
                 /\ pc' = "loop"
                 /\ UNCHANGED err
    /\ UNCHANGED <<page, limit, include_details, i, movie_data, details,
                   movies, sleeps, returned, call, ret>>

\* next iteration: movie_data = extract_basic_data(movie_element), then the
\* test of include_details and movie_data["detail_url"]
ExtractBasic ==
    /\ pc = "loop"
    /\ i < Len(movie_elements)
    /\ i' = i + 1
    /\ LET r == extract_basic_data(movie_elements[i + 1]) IN
       IF r.raised
       THEN /\ err' = r.exc
            /\ pc' = "failed"
            /\ UNCHANGED movie_data
       ELSE /\ movie_data' = r.value
            /\ pc' = IF ShouldEnrich(include_details, r.value)
                     THEN "details" ELSE "append"
            /\ UNCHANGED err
    /\ UNCHANGED <<page, limit, include_details, movie_elements, details,
                   movies, fetches, sleeps, returned, call, ret>>

\* details = extract_movie_details(movie_data["detail_url"])
FetchDetails ==
    /\ pc = "details"
    /\ \E outcome \in {Response(st, doc) : st \in Statuses, doc \in DetailDocs}
                      \cup {TransportFault} :
       \E dOrder \in Orderings(SeqToSet(IF outcome.kind = "response"
                                        THEN outcome.body.director_links ELSE <<>>)),
          wOrder \in Orderings(SeqToSet(IF outcome.kind = "response"
                                        THEN outcome.body.writer_links ELSE <<>>)),
          aOrder \in Orderings(SeqToSet(IF outcome.kind = "response"
                                        THEN outcome.body.actor_links ELSE <<>>)) :
         LET r == extract_movie_details(outcome, dOrder, wOrder, aOrder) IN
         /\ fetches' = Append(fetches, Fetch(movie_data.detail_url.str, outcome, i))
         /\ IF r.raised
            THEN /\ err' = r.exc
                 /\ pc' = "failed"
                 /\ UNCHANGED details
            ELSE /\ details' = r.value
                 /\ pc' = "merge"
                 /\ UNCHANGED err
    /\ UNCHANGED <<page, limit, include_details, movie_elements, i, movie_data,
                   movies, sleeps, returned, call, ret>>

\* movie_data.update(details)
Merge ==
    /\ pc = "merge"
    /\ movie_data' = Update(movie_data, details)
    /\ details' = PyNone
    /\ pc' = "sleep"
    /\ UNCHANGED <<page, limit, include_details, movie_elements, i, movies,
                   fetches, sleeps, err, returned, call, ret>>

\* faulty variant: the pause is skipped
Sleep_Skipped ==
    /\ pc = "sleep"
    /\ pc' = "append"
    /\ UNCHANGED <<page, limit, include_details, movie_elements, i, movie_data,
                   details, movies, fetches, sleeps, err, returned, call, ret>>

\* time.sleep(1)
Sleep ==
    /\ pc = "sleep"
    /\ sleeps' = sleeps + 1
    /\ pc' = "append"
    /\ UNCHANGED <<page, limit, include_details, movie_elements, i, movie_data,
                   details, movies, fetches, err, returned, call, ret>>

\* movies.append(movie_data)
AppendMovie ==
    /\ pc = "append"
    /\ movies' = Append(movies, movie_data)
    /\ movie_data' = PyNone
    /\ pc' = "loop"
    /\ UNCHANGED <<page, limit, include_details, movie_elements, i, details,
                   fetches, sleeps, err, returned, call, ret>>

\* return movies
ReturnMovies ==
    /\ pc = "loop"
    /\ i = Len(movie_elements)
    /\ returned' = Returned(movies)
    /\ pc' = "done"
    /\ UNCHANGED <<page, limit, include_details, movie_elements, i, movie_data,
                   details, movies, fetches, sleeps, err, call, ret>>

Next ==
    \/ FetchList
    \/ ExtractBasic
    \/ FetchDetails
    \/ Merge
    \/ Sleep
    \/ AppendMovie
    \/ ReturnMovies

Spec == Init /\ [][Next]_vars

\* ------------------------------------------- calls of the pure functions
ExampleVotesM  == <<"(", "3", ".", "2", "M", ")">>
ExampleVotesK  == <<"(", "9", "7", "2", "K", ")">>
ExampleTitle   == <<"1", ".", " ", "C", "a", "d", "e", "n", "a", " ", "p", "e", "r", "p", "e", "t", "u", "a">>
ExampleCleaned == <<"C", "a", "d", "e", "n", "a", " ", "p", "e", "r", "p", "e", "t", "u", "a">>
ExampleHref    == <<"/", "t", "i", "t", "l", "e", "/", "t", "t", "0", "1", "1", "1", "1", "6", "1", "/", "?", "r", "e", "f", "_", "=", "c", "h", "t", "t", "p", "_", "t", "_", "1">>
ExampleDetail  == <<"h", "t", "t", "p", "s", ":", "/", "/", "w", "w", "w", ".", "i", "m", "d", "b", ".", "c", "o", "m", "/", "t", "i", "t", "l", "e", "/", "t", "t", "0", "1", "1", "1", "1", "6", "1", "/">>

VotesInputs ==
    {PyNone, PyStr(<<>>), PyStr(NA), PyStr(ExampleVotesM), PyStr(ExampleVotesK)}
    \cup {PyStr(<<"(", a, ".", b, u, ")">>) : a \in Digits, b \in Digits, u \in {"M", "K"}}
    \cup {PyStr(<<"(", a, b, "K", ")">>) : a \in Digits, b \in Digits}
    \cup {PyStr(t) : t \in {<<"1", ",", "2", "3", "4">>, <<"(", "1", "2", ")">>, <<" ", "(", "3", ",", "2", "M", ")", " ">>, <<"(", "x", ")">>, <<"(", ")">>, <<"(", "1", ".", "2", ".", "3", "M", ")">>, <<"(", ".", "K", ")">>}}

\* clean_title is given texts taken with get_text(strip=True)
TitleAlphabet == {"1", ".", " ", "a"}
TitleInputs ==
    {PyNone, PyStr(ExampleTitle), PyStr(<<"1", "2", ".", " ", "M", "r", ".", " ", "S", "m", "i", "t", "h">>)}
    \cup {PyStr(t) : t \in {u \in SeqsUpTo(TitleAlphabet, MaxTitleLen) : Strip(u) = u}}

HrefAlphabet == {"/", "t", "?", "r"}
LinkInputs ==
    {NoElem, BareElem, AttrElem(ExampleHref)}
    \cup {AttrElem(h) : h \in SeqsUpTo(HrefAlphabet, MaxHrefLen)}

\* an entry that holds nothing but the given link element
LinkEntry(link) ==
    [title_tag |-> NoNode, metadata_items |-> <<>>, rating_tag |-> NoNode,
     votes_tag |-> NoNode, img_tag |-> NoElem, link_tag |-> link]

\* an entry like e whose vote-count node carries the given text
WithVotes(e, t) == [e EXCEPT !.votes_tag = TextNode(t)]

EntryInputs ==
    EntryShapes
    \cup {LinkEntry(l) : l \in {NoElem, BareElem}}
    \cup {WithVotes(e, v.str) : e \in {EntryFull, EntryNoLink},
                                v \in VotesInputs \ {PyNone}}

Called == ret # Pending

FnInit ==
    /\ page = <<>>
    /\ limit = PyNone
    /\ include_details = FALSE
    /\ pc = "idle"
    /\ movie_elements = <<>>
    /\ i = 0
    /\ movie_data = PyNone
    /\ details = PyNone
    /\ movies = <<>>
    /\ fetches = <<>>
    /\ sleeps = 0
    /\ err = NoError
    /\ returned = NotReturned
    /\ ret = Pending
    /\ \/ \E t \in VotesInputs : call = [fn |-> "clean_votes", arg |-> t]
       \/ \E t \in TitleInputs : call = [fn |-> "clean_title", arg |-> t]
       \/ \E l \in LinkInputs :
             call = [fn |-> "extract_movie_link", arg |-> LinkEntry(l)]
       \/ \E e \in EntryInputs : call = [fn |-> "extract_basic_data", arg |-> e]

FnUnchanged ==
    UNCHANGED <<page, limit, include_details, pc, movie_elements, i, movie_data,
                details, movies, fetches, sleeps, err, returned, call>>

CallCleanVotes ==
    /\ call.fn = "clean_votes" /\ ~Called
    /\ ret' = clean_votes(call.arg)
    /\ FnUnchanged

CallCleanTitle ==
    /\ call.fn = "clean_title" /\ ~Called
    /\ ret' = Return(clean_title(call.arg))
    /\ FnUnchanged

CallExtractLink ==
    /\ call.fn = "extract_movie_link" /\ ~Called
    /\ ret' = Return(extract_movie_link(call.arg))
    /\ FnUnchanged

CallExtractBasic ==
    /\ call.fn = "extract_basic_data" /\ ~Called
    /\ ret' = extract_basic_data(call.arg)
    /\ FnUnchanged

FnNext ==
    \/ CallCleanVotes
    \/ CallCleanTitle
    \/ CallExtractLink
    \/ CallExtractBasic

FnSpec == FnInit /\ [][FnNext]_vars

\* ================================================================ claims
Min(a, b) == IF a < b THEN a ELSE b

\* the six basic fields of a record
BasicPart(rec) == [f \in BasicFields |-> rec[f]]

\* the entries of the run that have a link node
Linked(k) == movie_elements[k].link_tag.present

\* the detail fetches issued so far
DetailFetchIdx == {k \in 1..Len(fetches) : fetches[k].idx > 0}
FetchedEntries == {fetches[k].idx : k \in DetailFetchIdx}
Succeeded(k) == fetches[k].kind = "response" /\ fetches[k].status = 200
Http(k) == fetches[k].kind = "response"

\* C1: for every cap N and every list page with A entries the run returns
\* exactly min(N, A) records (A records without a cap), and the k-th record
\* is built from the k-th entry of the list page.
C1_CapYieldsMin ==
    pc = "done" =>
        /\ Len(returned.value) =
              IF limit.kind = "none" THEN Len(page) ELSE Min(limit.int, Len(page))
        /\ \A k \in 1..Len(returned.value) :
              /\ k <= Len(page)
              /\ BasicPart(returned.value[k]) = extract_basic_data(page[k]).value

\* C2: with enrichment disabled no detail fetch is ever issued and no pause
\* is ever performed, whether or not an entry has a detail URL; the only
\* fetch is the one of the list page.
C2_NoEnrichmentNoDetailFetch ==
    (pc # "idle" /\ ~include_details) =>
        /\ sleeps = 0
        /\ Len(fetches) <= 1
        /\ \A k \in 1..Len(fetches) : fetches[k].url = URL /\ fetches[k].idx = 0

C2_Witness ==
    /\ ~include_details
    /\ pc = "done"
    /\ Len(fetches) = 1
    /\ \E k \in 1..Len(movies) : Truthy(movies[k].detail_url)
    /\ \E k \in 1..Len(movies) : ~Truthy(movies[k].detail_url)

\* C3: a fetch answered with a non-200 status makes fetch_page fail with an
\* error whose message includes the status code; the error leaves
\* scrape_top_movies, the fetch is not retried (it stays the last fetch of
\* the run) and nothing is returned to the caller.
C3_Non200Aborts ==
    \A k \in 1..Len(fetches) :
        (Http(k) /\ fetches[k].status # 200) =>
            /\ k = Len(fetches)
            /\ pc = "failed"
            /\ err.type = "Exception"
            /\ err.msg[Len(err.msg)] = ToString(fetches[k].status)
            /\ returned = NotReturned

C3_Witness ==
    /\ pc = "failed"
    /\ Len(fetches) >= 2
    /\ Http(Len(fetches)) /\ fetches[Len(fetches)].status = 404
    /\ Len(movies) >= 1
    /\ returned = NotReturned

\* C4: with enrichment enabled every processed entry has exactly one record;
\* an entry without a rating node has rating "N/A"; an entry without a link
\* node has an absent detail_url, is never fetched, and its record holds the
\* six basic fields only.
C4_EnrichedRecords ==
    (pc # "idle" /\ include_details) =>
        /\ pc \in {"loop", "done"} => Len(movies) = i
        /\ pc = "done" => Len(returned.value) = Len(movie_elements)
        /\ \A k \in 1..Len(movies) :
              /\ ~movie_elements[k].rating_tag.present =>
                    movies[k].rating = PyStr(NA)
              /\ ~Linked(k) =>
                    /\ movies[k].detail_url = PyNone
                    /\ DOMAIN movies[k] = BasicFields
                    /\ k \notin FetchedEntries

C4_Witness ==
    /\ include_details
    /\ pc = "done"
    /\ Len(returned.value) = 3
    /\ \E k \in 1..3 : ~movie_elements[k].rating_tag.present
    /\ \E k \in 1..3 : ~Linked(k) /\ DOMAIN movies[k] = BasicFields
    /\ \E k \in 1..3 : DetailFields \subseteq DOMAIN movies[k]

\* C5: extract_basic_data returns a record and raises no error for every
\* list entry, whatever it lacks and whatever text its nodes carry.
C5_BasicExtractionNeverFails ==
    (call.fn = "extract_basic_data" /\ Called) => ~ret.raised

\* C6 as stated: whatever the outcome of a detail fetch, one pause follows
\* it before the next entry is processed or the run ends, so between
\* entries and at the end of the run the pauses performed equal the detail
\* fetches issued.
C6_PauseAfterEveryDetailFetch ==
    pc \in {"append", "loop", "done", "failed"} =>
        sleeps = Cardinality(DetailFetchIdx)

\* C6 amended: every detail fetch answered with 200 is followed by exactly
\* one pause before the entry's record is appended; a detail fetch that
\* fails ends the run with no pause after it.  The pauses performed equal
\* the successful detail fetches.
C6_PauseAfterSuccessfulDetailFetch ==
    /\ pc \in {"append", "loop", "done", "failed"} =>
          sleeps = Cardinality({k \in DetailFetchIdx : Succeeded(k)})
    /\ pc \in {"merge", "sleep"} =>
          sleeps = Cardinality({k \in DetailFetchIdx : Succeeded(k)}) - 1
    /\ \A k \in DetailFetchIdx : ~Succeeded(k) => pc = "failed" /\ k = Len(fetches)

C6_Witness ==
    /\ pc = "failed"
    /\ sleeps = 1
    /\ Cardinality(DetailFetchIdx) = 2
    /\ ~Succeeded(Len(fetches))

\* C7: "(<d>.<d>M)" gives round(d.d * 1,000,000); a numeric prefix followed
\* by "K" gives the prefix times 1,000; "N/A" and "" give the absent value.
IsOneDecimal(s, u) ==
    /\ Len(s) = 6
    /\ s[1] = "(" /\ s[2] \in Digits /\ s[3] = "." /\ s[4] \in Digits
    /\ s[5] = u /\ s[6] = ")"
IsWholeK(s) ==
    /\ Len(s) >= 4
    /\ s[1] = "(" /\ s[Len(s) - 1] = "K" /\ s[Len(s)] = ")"
    /\ AllDigits(SubSeq(s, 2, Len(s) - 2))
Tenths(s) == 10 * DigitVal(s[2]) + DigitVal(s[4])

C7_VotesNormalised ==
    (call.fn = "clean_votes" /\ Called) =>
        LET t == call.arg IN
        /\ (t.kind = "str" /\ IsOneDecimal(t.str, "M")) =>
              ret = Return(PyInt(Tenths(t.str) * 100000))
        /\ (t.kind = "str" /\ IsOneDecimal(t.str, "K")) =>
              ret = Return(PyInt(Tenths(t.str) * 100))
        /\ (t.kind = "str" /\ IsWholeK(t.str)) =>
              ret = Return(PyInt(DigitsVal(SubSeq(t.str, 2, Len(t.str) - 2)) * 1000))
        /\ (t.kind = "str" /\ t.str \in {NA, <<>>}) => ret = Return(PyNone)

\* C8: an entry with a link node gets the site origin followed by the
\* link's address up to, not including, its first "?"; an entry gets the
\* absent URL exactly when it has no link node.
C8_DetailUrl ==
    (call.fn = "extract_movie_link" /\ Called) =>
        LET link == call.arg.link_tag
            href == IF link.has_attr THEN link.attr ELSE <<>>
            out  == ret.value
        IN
        /\ link.present =>
              /\ out.kind = "str"
              /\ Len(out.str) >= Len(BASE_URL)
              /\ SubSeq(out.str, 1, Len(BASE_URL)) = BASE_URL
              /\ LET rest == SubSeq(out.str, Len(BASE_URL) + 1, Len(out.str)) IN
                 /\ ~Contains(rest, "?")
                 /\ Len(rest) <= Len(href)
                 /\ rest = SubSeq(href, 1, Len(rest))
                 /\ Len(rest) < Len(href) => href[Len(rest) + 1] = "?"
        /\ href = ExampleHref /\ link.present => out = PyStr(ExampleDetail)
        /\ (out.kind = "none") <=> ~link.present
        /\ (extract_basic_data(call.arg).value.detail_url.kind = "none") <=> ~link.present

C8_Witness ==
    /\ call.fn = "extract_movie_link" /\ Called
    /\ call.arg.link_tag = AttrElem(ExampleHref)
    /\ ret.value = PyStr(ExampleDetail)

\* C9: clean_title strips a leading "N. " ranking prefix, leaves a string
\* without ". " unchanged, gives "N/A" for empty or absent input, and
\* leaves an already cleaned title that has no ranking prefix unchanged.
HasRankPrefix(s) ==
    \E n \in 1..Len(s) :
        /\ n + 2 <= Len(s)
        /\ AllDigits(SubSeq(s, 1, n))
        /\ s[n + 1] = "." /\ s[n + 2] = " "
RankPrefixLen(s) ==
    CHOOSE n \in 1..Len(s) :
        /\ n + 2 <= Len(s)
        /\ AllDigits(SubSeq(s, 1, n))
        /\ s[n + 1] = "." /\ s[n + 2] = " "

C9_TitleCleaning ==
    (call.fn = "clean_title" /\ Called) =>
        LET t == call.arg
            out == ret.value
        IN
        /\ ~Truthy(t) => out = PyStr(NA)
        /\ (Truthy(t) /\ HasRankPrefix(t.str)) =>
              out = PyStr(SubSeq(t.str, RankPrefixLen(t.str) + 3, Len(t.str)))
        /\ (Truthy(t) /\ FindPair(t.str, ".", " ", 1) = 0) => out = t
        /\ (Truthy(out) /\ ~HasRankPrefix(out.str)) => clean_title(out) = out

\* C10: the list page is fetched exactly once and before any detail fetch;
\* detail fetches are issued in ranking order, at most one per entry, and
\* exactly for the entries with a detail URL when enrichment is enabled;
\* a record is appended once, after its detail fields were merged, and is
\* never modified or removed afterwards.
C10_Order ==
    /\ pc \notin {"idle", "start"} =>
          /\ Len(fetches) >= 1
          /\ fetches[1].url = URL /\ fetches[1].idx = 0
    /\ \A k \in 2..Len(fetches) :
          /\ fetches[k].idx \in 1..i
          /\ fetches[k].url # URL
          /\ fetches[k].url = extract_movie_link(movie_elements[fetches[k].idx]).str
          /\ include_details /\ Linked(fetches[k].idx)
          /\ \A j \in 2..(k - 1) : fetches[j].idx < fetches[k].idx
    /\ pc \in {"loop", "done"} =>
          /\ Len(movies) = i
          /\ FetchedEntries = {k \in 1..i : include_details /\ Linked(k)}
    /\ pc = "done" =>
          /\ returned.value = movies
          /\ Len(fetches) =
                1 + Cardinality({k \in 1..Len(movie_elements) :
                                    include_details /\ Linked(k)})
    /\ \A k \in 1..Len(movies) :
          (k \in FetchedEntries) <=> (DetailFields \subseteq DOMAIN movies[k])

C10_Frozen ==
    /\ Len(movies') >= Len(movies)
    /\ Len(movies') <= Len(movies) + 1
    /\ \A k \in 1..Len(movies) : movies'[k] = movies[k]

C10_RunOrdering == [](C10_Order) /\ [][C10_Frozen]_vars

C10_Witness ==
    /\ include_details
    /\ pc = "done"
    /\ Len(movies) = 3
    /\ Len(fetches) = 3
    /\ fetches[2].idx = 1 /\ fetches[3].idx = 3

====
